---- MODULE Spec2Model ----
(***************************************************************************)
(* Visual document comparison pipeline of                                  *)
(* backend/app/services/document_comparison.py: the sequential             *)
(* orchestrator compare_document_pair and the concurrent orchestrator      *)
(* compare_document_pair_optimized with its page pipelines                 *)
(* _process_page_pair, run on the same document pair and against the same  *)
(* collaborators (renderer, rasterizer, recognition engine, drawing,       *)
(* object storage).                                                        *)
(*                                                                         *)
(* Strings that the code builds by concatenation are modelled as           *)
(* sequences of parts: the stem "r_RENAMED" is <<"r", "_RENAMED">>.        *)
(***************************************************************************)
EXTENDS Integers, Sequences, FiniteSets, TLC

\* Largest page count a document of the model has.
MaxPages == 2

Variants == {"seq", "opt"}
Sides == {"EXCEL", "PDF"}
Pages == 0 .. (MaxPages - 1)

\* File names the caller may pass: one pair with equal stems, one without.
ExcelNames == {[stem |-> <<"r">>, ext |-> ".xlsx"], [stem |-> <<"s">>, ext |-> ".xlsx"]}
PdfNames == {[stem |-> <<"r">>, ext |-> ".pdf"],
             [stem |-> <<"r", "_RENAMED">>, ext |-> ".pdf"]}

\* The steps of one page, in the order the sequential loop makes them.
SeqSteps == << <<"ocr", "EXCEL">>, <<"ocr", "PDF">>, <<"draw", "EXCEL">>,
               <<"draw", "PDF">>, <<"store", "EXCEL">>, <<"store", "PDF">> >>

\* The collaborators' answers are keyed by <<step, page, side>>; the steps
\* that are made once per document use page 0.
EnvKeys == ({"render"} \X {0} \X {"EXCEL"})
             \cup ({"raster"} \X {0} \X Sides)
             \cup ({"ocr", "draw", "store"} \X Pages \X Sides)

VARIABLES
    excel_file_name,  \* argument of both orchestrators
    pdf_file_name,    \* argument of both orchestrators
    doc_pages,        \* pages of the rendered spreadsheet and of the PDF
    env,              \* answers of the collaborators, "?" until first asked
    workspace,        \* per variant: files of its task directory
    pc,               \* per variant: position of the orchestrator coroutine
    excel_path,       \* per variant: spreadsheet path after the collision guard
    num_pages,        \* per variant and side: page count reported, -1 before
    page_num,         \* sequential loop: index of the page in progress
    seq_step,         \* sequential loop: index into SeqSteps of the next step
    rast,             \* optimized: state of the two rasterization threads
    pstat,            \* optimized: state of each page pipeline
    pstage,           \* optimized: stage of each page pipeline
    ptask,            \* optimized: state of the two sub-tasks of each page
    finish_order,     \* optimized: pages in the order their pipelines ended
    result_images,    \* per variant: the list built by the orchestrator
    outcome,          \* per variant: what the caller observes
    work,             \* per variant: per-page steps started so far
    failed,           \* per variant: per-page steps that raised
    succeeded,        \* per variant: per-page steps that returned
    stored,           \* per variant: objects written to the output bucket
    invocations,      \* per variant: calls made so far on its task directory
    texts,            \* one page: the tokens extracted from each side
    bboxes,           \* one page: the rectangle of each token of each side
    diff_indices,     \* one page: result of find_text_differences per side
    rectangles,       \* one page: rectangles drawn on each side's image
    page_pc,          \* one page: position in extract, diff, draw
    task_dir_exists,  \* classifier: whether the task directory exists
    entries,          \* classifier: the entries of the task directory
    cls_pc,           \* classifier: position of the call in progress
    to_scan,          \* classifier: entries iterdir has not yielded yet
    result,           \* classifier: the dict being built
    export_cd_files,  \* classifier: the list being built
    returned,         \* classifier: the dicts returned by the calls so far
    wrapped,          \* retry: the function under retry_with_backoff
    max_retries,      \* retry: the decorator's max_retries
    max_delay,        \* retry: the decorator's max_delay, in seconds
    retry_on,         \* retry: the exception classes the decorator retries
    rw_pc,            \* retry: position of the wrapper's call
    attempt,          \* retry: the loop variable of the wrapper
    remote,           \* retry: what each invocation of the function met
    slept,            \* retry: the delays slept so far, in tenths of a second
    rw_result,        \* retry: what the wrapper returned or raised
    failure_threshold,  \* breaker: failures that open the circuit
    cb_state,         \* breaker: CircuitState
    failure_count,    \* breaker: failure_count
    last_failure_time,  \* breaker: last_failure_time, None before a failure
    now,              \* breaker: time.time()
    cb_pc,            \* breaker: whether a returned awaitable is pending
    cb_log            \* breaker: what each call of the breaker did

\* The variables of the two orchestrators.
pairVars == <<excel_file_name, pdf_file_name, doc_pages, env, workspace, pc,
              excel_path, num_pages, page_num, seq_step, rast, pstat, pstage,
              ptask, finish_order, result_images, outcome, work,
              failed, succeeded, stored, invocations>>

\* The variables of the data flow of one page.
pageVars == <<texts, bboxes, diff_indices, rectangles, page_pc>>

\* The variables of classify_input_documents.
clsVars == <<task_dir_exists, entries, cls_pc, to_scan, result, export_cd_files,
             returned>>

\* The variables of one call of a retry_with_backoff wrapper.
retryVars == <<wrapped, max_retries, max_delay, retry_on, rw_pc, attempt, remote, slept,
               rw_result>>

\* The variables of one CircuitBreaker.
cbVars == <<failure_threshold, cb_state, failure_count, last_failure_time, now,
            cb_pc, cb_log>>

\* The variables of app.core.resilience.
resVars == <<retryVars, cbVars>>

\* What the orchestrators' steps leave alone besides their own variables.
otherVars == <<pageVars, clsVars, resVars>>

vars == <<pairVars, pageVars, clsVars, resVars>>

inputVars == <<excel_file_name, pdf_file_name, doc_pages>>
seqVars == <<page_num, seq_step>>
optVars == <<rast, pstat, pstage, ptask, finish_order>>

----------------------------------------------------------------------------
\* Names and paths

\* A file name: Path.stem as a sequence of parts, and Path.suffix.
File(stem, ext) == [stem |-> stem, ext |-> ext]

\* Path.stem equality test of the collision guard.
SameStem(x, p) == x.stem = p.stem

\* A rename that keeps the name.
RenamedExcelSame(x) == x

\* task_dir / f"{excel_stem}_RENAMED{excel_path.suffix}"
RenamedExcel(x) == File(x.stem \o <<"_RENAMED">>, x.ext)

\* excel_path.with_suffix(".pdf")
RenderedPdf(x) == File(x.stem, ".pdf")

\* A page image name without the page number.
PageImageUnnumbered(doc, i) == File(doc.stem \o <<"_page_">>, ".jpg")

\* pdf_path.parent / f"{pdf_path.stem}_page_{i}.jpg", i counted from 1
PageImage(doc, i) == File(doc.stem \o <<"_page_", ToString(i)>>, ".jpg")

\* image_path.parent / f"{image_path.stem}{output_suffix}.jpg"
AnnotatedImage(img) == File(img.stem \o <<"_with_bboxes">>, ".jpg")

\* The document each side is rasterized from.
SideDoc(v, side) == IF side = "EXCEL" THEN RenderedPdf(excel_path[v]) ELSE pdf_file_name

\* excel_image_paths[page_num] and pdf_image_paths[page_num]
SideImage(v, side, p) == PageImage(SideDoc(v, side), p + 1)

\* {"EXCEL": excel_bbox_path.name, "PDF": pdf_bbox_path.name}
PagePair(v, p) == [EXCEL |-> AnnotatedImage(SideImage(v, "EXCEL", p)),
                   PDF |-> AnnotatedImage(SideImage(v, "PDF", p))]

----------------------------------------------------------------------------
\* What the caller observes

NotStarted == [status |-> "NotStarted", error |-> "", counts |-> <<>>, result |-> <<>>]
Running == [status |-> "Running", error |-> "", counts |-> <<>>, result |-> <<>>]

\* return result_images
Completed(res) == [status |-> "Completed", error |-> "", counts |-> <<>>, result |-> res]

\* raise: the caller gets the exception and no list
Failed(err) == [status |-> "Failed", error |-> err, counts |-> <<>>, result |-> <<>>]

\* The message with the two counts exchanged.
PageMismatchSwapped(m, n) == [Failed("PageMismatch") EXCEPT !.counts = <<n, m>>]

\* raise ValueError(f"... Excel: {excel_num_pages}, PDF: {pdf_num_pages}")
PageMismatch(m, n) == [Failed("PageMismatch") EXCEPT !.counts = <<m, n>>]

\* The check comparing a count with itself.
PageCountsDifferSelf(m, n) == m # m

\* if excel_num_pages != pdf_num_pages
PageCountsDiffer(m, n) == m # n

\* The exception a failed step of a page raises.
StepError(step) == CASE step = "ocr" -> "Recognition"
                     [] step = "draw" -> "Annotate"
                     [] OTHER -> "Upload"

----------------------------------------------------------------------------
\* Collaborators

Answers == {"ok", "fail"}

\* A collaborator is asked for step k and answers a; it gives the same
\* answer whenever it is asked for the same step again.
Ask(k, a) == /\ env[k] \in {"?", a}
             /\ env' = [env EXCEPT ![k] = a]

\* Parameters of StorageService.upload_file besides self.
UploadFileParams == {"file_path", "object_name", "content_type"}

\* Keyword arguments save_image_to_storage passes to upload_file; the two
\* positional arguments bind file_path and object_name.
SaveImageKeywords == {"content_type", "bucket"}

\* Python binds a call only if every keyword names a parameter; otherwise
\* the call raises TypeError before the body of upload_file runs.
UploadCallBinds == SaveImageKeywords \subseteq UploadFileParams

\* The collaborator is asked only if the step gets as far as calling it.
AskStep(k, a) == IF k[1] = "store" /\ ~UploadCallBinds
                 THEN a = "fail" /\ UNCHANGED env
                 ELSE Ask(k, a)

\* Files a successful step leaves in the task directory.
StepFiles(v, k) == IF k[1] = "draw"
                   THEN {AnnotatedImage(SideImage(v, k[3], k[2]))}
                   ELSE {}

\* Objects a successful step leaves in the output bucket.
StepObjects(v, k) == IF k[1] = "store"
                     THEN {AnnotatedImage(SideImage(v, k[3], k[2]))}
                     ELSE {}

----------------------------------------------------------------------------
\* Nothing of a call has run yet: no collaborator was asked, no step taken.
PairStart ==
    /\ env = [k \in EnvKeys |-> "?"]
    /\ pc = [v \in Variants |-> "idle"]
    /\ excel_path = [v \in Variants |-> excel_file_name]
    /\ num_pages = [v \in Variants |-> [s \in Sides |-> -1]]
    /\ page_num = 0
    /\ seq_step = 1
    /\ rast = [s \in Sides |-> "idle"]
    /\ pstat = [p \in Pages |-> "idle"]
    /\ pstage = [p \in Pages |-> "ocr"]
    /\ ptask = [p \in Pages |-> [s \in Sides |-> "idle"]]
    /\ finish_order = <<>>
    /\ result_images = [v \in Variants |-> <<>>]
    /\ outcome = [v \in Variants |-> NotStarted]
    /\ work = [v \in Variants |-> {}]
    /\ failed = [v \in Variants |-> {}]
    /\ succeeded = [v \in Variants |-> {}]
    /\ stored = [v \in Variants |-> {}]
    /\ invocations = [v \in Variants |-> 0]

\* No pair is being compared.
PairIdle ==
    /\ excel_file_name = File(<<"r">>, ".xlsx")
    /\ pdf_file_name = File(<<"r">>, ".pdf")
    /\ doc_pages = [s \in Sides |-> 0]
    /\ workspace = [v \in Variants |-> {}]
    /\ PairStart

\* No page is being diffed.
PageIdle ==
    /\ texts = [s \in Sides |-> <<>>]
    /\ bboxes = [s \in Sides |-> <<>>]
    /\ diff_indices = [s \in Sides |-> <<>>]
    /\ rectangles = [s \in Sides |-> <<>>]
    /\ page_pc = [phase |-> "idle", done |-> {}]

\* No directory is being classified.
ClsIdle ==
    /\ task_dir_exists = FALSE
    /\ entries = {}
    /\ cls_pc = "idle"
    /\ to_scan = {}
    /\ result = <<>>
    /\ export_cd_files = <<>>
    /\ returned = <<>>

\* No wrapper is being called.
RetryIdle ==
    /\ wrapped = "func"
    /\ max_retries = 0
    /\ max_delay = 0
    /\ retry_on = {}
    /\ rw_pc = "idle"
    /\ attempt = 0
    /\ remote = <<>>
    /\ slept = <<>>
    /\ rw_result = <<>>

\* No breaker is in use.
BreakerIdle ==
    /\ failure_threshold = 0
    /\ cb_state = "closed"
    /\ failure_count = 0
    /\ last_failure_time = <<>>
    /\ now = 0
    /\ cb_pc = "idle"
    /\ cb_log = <<>>

ResIdle == RetryIdle /\ BreakerIdle

Init ==
    /\ excel_file_name \in ExcelNames
    /\ pdf_file_name \in PdfNames
    /\ doc_pages \in [Sides -> 0 .. MaxPages]
    /\ \E present \in SUBSET {excel_file_name, pdf_file_name} :
          workspace = [v \in Variants |-> present]
    /\ PairStart
    /\ PageIdle
    /\ ClsIdle
    /\ ResIdle

\* The orchestrator raises or returns: the caller observes o.
Finish(v, o) == /\ pc' = [pc EXCEPT ![v] = "done"]
                /\ outcome' = [outcome EXCEPT ![v] = o]

\* An existence check that looks at the spreadsheet only.
InputsExistExcelOnly(v) == excel_file_name \in workspace[v]

\* if not excel_path.exists(): raise ...; if not pdf_path.exists(): raise ...
InputsExist(v) == excel_file_name \in workspace[v] /\ pdf_file_name \in workspace[v]

\* A guard that copies the spreadsheet and leaves the original.
AfterCopy(files, old, new) == files \cup {new}

\* excel_path.rename(renamed_excel_path): the file moves to the new name.
AfterRename(files, old, new) == (files \ {old}) \cup {new}

\* Entry of compare_document_pair and compare_document_pair_optimized:
\* existence checks, then the collision guard.  One call runs at a time.
Start(v) ==
    /\ pc[v] = "idle"
    /\ \A w \in Variants : pc[w] \in {"idle", "done"}
    /\ invocations' = [invocations EXCEPT ![v] = @ + 1]
    /\ IF ~InputsExist(v)
       THEN /\ Finish(v, Failed("NotFound"))
            /\ UNCHANGED <<workspace, excel_path>>
       ELSE /\ pc' = [pc EXCEPT ![v] = "render"]
            /\ outcome' = [outcome EXCEPT ![v] = Running]
            /\ IF SameStem(excel_file_name, pdf_file_name)
               THEN /\ workspace' = [workspace EXCEPT ![v] =
                          AfterRename(@, excel_file_name, RenamedExcel(excel_file_name))]
                    /\ excel_path' = [excel_path EXCEPT ![v] = RenamedExcel(excel_file_name)]
               ELSE UNCHANGED <<workspace, excel_path>>
    /\ UNCHANGED <<inputVars, otherVars, env, num_pages, seqVars, optVars, result_images,
                   work, failed, succeeded, stored>>

\* A renderer whose failure is logged and not raised.
RenderFailureSwallowed == FALSE

\* except CalledProcessError / TimeoutExpired: log, then raise; neither
\* orchestrator calls the renderer again.
RenderFailureIsFatal == TRUE

\* convert_excel_to_pdf, awaited alone in both variants.  The optimized
\* variant then creates the two rasterization threads and gathers them.
convert_excel_to_pdf(v) ==
    /\ pc[v] = "render"
    /\ \E a \in Answers :
         /\ Ask(<<"render", 0, "EXCEL">>, a)
         /\ IF (a = "fail" /\ RenderFailureIsFatal) \/ excel_path[v] \notin workspace[v]
            THEN /\ Finish(v, Failed("Render"))
                 /\ UNCHANGED <<workspace, rast>>
            ELSE /\ workspace' = [workspace EXCEPT ![v] = @ \cup {RenderedPdf(excel_path[v])}]
                 /\ pc' = [pc EXCEPT ![v] = IF v = "seq" THEN "raster_excel" ELSE "raster"]
                 /\ rast' = IF v = "opt" THEN [s \in Sides |-> "run"] ELSE rast
                 /\ UNCHANGED outcome
    /\ UNCHANGED <<inputVars, otherVars, invocations, excel_path, num_pages, seqVars, pstat, pstage,
                   ptask, finish_order, result_images, work, failed, succeeded, stored>>

\* Page images export_pdf_to_images writes for a document of n pages.
RasterFiles(doc, n) == {PageImage(doc, i) : i \in 1 .. n}

\* Sequential steps 3 and 4: export_pdf_to_images of one side.
SeqRaster(side) ==
    /\ pc["seq"] = (IF side = "EXCEL" THEN "raster_excel" ELSE "raster_pdf")
    /\ \E a \in Answers :
         /\ Ask(<<"raster", 0, side>>, a)
         /\ IF a = "fail" \/ SideDoc("seq", side) \notin workspace["seq"]
            THEN /\ Finish("seq", Failed("Rasterize"))
                 /\ UNCHANGED <<workspace, num_pages>>
            ELSE /\ num_pages' = [num_pages EXCEPT !["seq"][side] = doc_pages[side]]
                 /\ workspace' = [workspace EXCEPT !["seq"] =
                       @ \cup RasterFiles(SideDoc("seq", side), doc_pages[side])]
                 /\ pc' = [pc EXCEPT !["seq"] = IF side = "EXCEL" THEN "raster_pdf" ELSE "check"]
                 /\ UNCHANGED outcome
    /\ UNCHANGED <<inputVars, otherVars, invocations, excel_path, seqVars, optVars, result_images, work,
                   failed, succeeded, stored>>

\* Sequential step 5: the page count check.
SeqCheck ==
    /\ pc["seq"] = "check"
    /\ IF PageCountsDiffer(num_pages["seq"]["EXCEL"], num_pages["seq"]["PDF"])
       THEN Finish("seq", PageMismatch(num_pages["seq"]["EXCEL"], num_pages["seq"]["PDF"]))
       ELSE /\ pc' = [pc EXCEPT !["seq"] = "pages"]
            /\ UNCHANGED outcome
    /\ UNCHANGED <<inputVars, otherVars, invocations, env, workspace, excel_path, num_pages, seqVars,
                   optVars, result_images, work, failed, succeeded, stored>>

\* A range that stops one page early.
PageRangeShort(n) == 0 .. (n - 2)

\* for page_num in range(excel_num_pages)
PageRange(n) == 0 .. (n - 1)

\* A loop body wrapped in its own try/except that logs and continues.
SeqCatchesPageErrorPerPage == TRUE

\* The sequential loop has no handler of its own around the steps of a page.
SeqCatchesPageError == FALSE

\* Where the sequential loop goes after the last step of a page or after a
\* caught failure: the next page.
SeqNextPage ==
    /\ page_num' = page_num + 1
    /\ seq_step' = 1

\* Sequential step 6: one step of the page in progress (extract, draw or
\* upload of one side); after the second upload the page pair is appended.
SeqPageStep ==
    /\ pc["seq"] = "pages"
    /\ page_num \in PageRange(num_pages["seq"]["EXCEL"])
    /\ LET step == SeqSteps[seq_step]
           k == <<step[1], page_num, step[2]>>
       IN /\ work' = [work EXCEPT !["seq"] = @ \cup {k}]
          /\ \E a \in Answers :
               /\ AskStep(k, a)
               /\ IF a = "fail"
                  THEN /\ failed' = [failed EXCEPT !["seq"] = @ \cup {k}]
                       /\ UNCHANGED succeeded
                       /\ IF SeqCatchesPageError
                          THEN SeqNextPage /\ UNCHANGED <<pc, outcome>>
                          ELSE Finish("seq", Failed(StepError(step[1]))) /\ UNCHANGED seqVars
                       /\ UNCHANGED <<workspace, stored, result_images>>
                  ELSE /\ UNCHANGED failed
                       /\ succeeded' = [succeeded EXCEPT !["seq"] = @ \cup {k}]
                       /\ workspace' = [workspace EXCEPT !["seq"] = @ \cup StepFiles("seq", k)]
                       /\ stored' = [stored EXCEPT !["seq"] = @ \cup StepObjects("seq", k)]
                       /\ IF seq_step = Len(SeqSteps)
                          THEN /\ result_images' = [result_images EXCEPT !["seq"] =
                                     Append(@, PagePair("seq", page_num))]
                               /\ SeqNextPage
                          ELSE /\ seq_step' = seq_step + 1
                               /\ UNCHANGED <<page_num, result_images>>
                       /\ UNCHANGED <<pc, outcome>>
    /\ UNCHANGED <<inputVars, otherVars, invocations, excel_path, num_pages, optVars>>

\* The sequential loop is over: return result_images.
SeqReturn ==
    /\ pc["seq"] = "pages"
    /\ page_num \notin PageRange(num_pages["seq"]["EXCEL"])
    /\ Finish("seq", Completed(result_images["seq"]))
    /\ UNCHANGED <<inputVars, otherVars, invocations, env, workspace, excel_path, num_pages, seqVars,
                   optVars, result_images, work, failed, succeeded, stored>>

----------------------------------------------------------------------------
\* compare_document_pair_optimized

\* One of the two export_pdf_to_images threads of the optimized variant ends.
\* A thread is not cancelled when its sibling fails.
OptRasterDone(side) ==
    /\ rast[side] = "run"
    /\ \E a \in Answers :
         /\ Ask(<<"raster", 0, side>>, a)
         /\ IF a = "fail" \/ SideDoc("opt", side) \notin workspace["opt"]
            THEN /\ rast' = [rast EXCEPT ![side] = "fail"]
                 /\ UNCHANGED <<workspace, num_pages>>
            ELSE /\ rast' = [rast EXCEPT ![side] = "ok"]
                 /\ num_pages' = [num_pages EXCEPT !["opt"][side] = doc_pages[side]]
                 /\ workspace' = [workspace EXCEPT !["opt"] =
                       @ \cup RasterFiles(SideDoc("opt", side), doc_pages[side])]
    /\ UNCHANGED <<inputVars, otherVars, invocations, pc, excel_path, seqVars, pstat, pstage, ptask,
                   finish_order, result_images, outcome, work, failed, succeeded, stored>>

\* A join that resumes as soon as any child has ended.
GatherReadyAny(children) == \E s \in DOMAIN children : children[s] \in {"ok", "fail"}

\* asyncio.gather without return_exceptions: the awaiter resumes with the
\* first exception, or with all results once every child has one.
GatherReady(children) ==
    \/ \E s \in DOMAIN children : children[s] = "fail"
    \/ \A s \in DOMAIN children : children[s] = "ok"

\* A join that never sees a failure.
GatherNeverFailed(children) == FALSE

\* The gather re-raises the exception of a child.
GatherFailed(children) == \E s \in DOMAIN children : children[s] = "fail"

\* The keys of the two sub-tasks of stage st of page p.
StageKeys(st, p) == {<<st, p, s>> : s \in Sides}

\* The gather of the two rasterizations resumes the orchestrator: it raises,
\* or checks the page counts (step 4) and creates one _process_page_pair
\* task per page, each of which starts its two extraction threads.
OptRasterJoin ==
    /\ pc["opt"] = "raster"
    /\ GatherReady(rast)
    /\ IF GatherFailed(rast)
       THEN /\ Finish("opt", Failed("Rasterize"))
            /\ UNCHANGED <<pstat, ptask, work>>
       ELSE LET m == num_pages["opt"]["EXCEL"]
                n == num_pages["opt"]["PDF"]
            IN IF PageCountsDiffer(m, n)
               THEN /\ Finish("opt", PageMismatch(m, n))
                    /\ UNCHANGED <<pstat, ptask, work>>
               ELSE /\ pc' = [pc EXCEPT !["opt"] = "gather"]
                    /\ pstat' = [p \in Pages |-> IF p \in PageRange(m) THEN "run" ELSE "idle"]
                    /\ ptask' = [p \in Pages |-> [s \in Sides |->
                                   IF p \in PageRange(m) THEN "run" ELSE "idle"]]
                    /\ work' = [work EXCEPT !["opt"] =
                                   @ \cup UNION {StageKeys("ocr", p) : p \in PageRange(m) \cap Pages}]
                    /\ UNCHANGED outcome
    /\ UNCHANGED <<inputVars, otherVars, invocations, env, workspace, excel_path, num_pages, seqVars,
                   rast, pstage, finish_order, result_images, failed, succeeded, stored>>

\* One sub-task of a page pipeline ends: an extraction or drawing thread, or
\* a save_image_to_storage coroutine.  It is not cancelled when its sibling
\* fails: it ends on its own.
PageTaskDone(p, side) ==
    /\ ptask[p][side] = "run"
    /\ LET k == <<pstage[p], p, side>>
       IN \E a \in Answers :
            /\ AskStep(k, a)
            /\ ptask' = [ptask EXCEPT ![p][side] = a]
            /\ IF a = "ok"
               THEN /\ workspace' = [workspace EXCEPT !["opt"] = @ \cup StepFiles("opt", k)]
                    /\ stored' = [stored EXCEPT !["opt"] = @ \cup StepObjects("opt", k)]
                    /\ succeeded' = [succeeded EXCEPT !["opt"] = @ \cup {k}]
                    /\ UNCHANGED failed
               ELSE /\ failed' = [failed EXCEPT !["opt"] = @ \cup {k}]
                    /\ UNCHANGED succeeded
                    /\ UNCHANGED <<workspace, stored>>
    /\ UNCHANGED <<inputVars, otherVars, invocations, pc, excel_path, num_pages, seqVars, rast, pstat,
                   pstage, finish_order, result_images, outcome, work>>

\* The stage after st in _process_page_pair.
NextStage(st) == IF st = "ocr" THEN "draw" ELSE "store"

\* A join that cancels the pending siblings on the first failure.
PageFailureCancelsSiblings(p, q) == TRUE

\* Does a failure of page p end the pipelines of the other pages?  gather
\* with return_exceptions=True leaves them alone.
PageFailureCancels(p, q) == FALSE

\* The gather of a stage resumes _process_page_pair of page p: it re-raises
\* the failure, or starts the two sub-tasks of the next stage, or returns
\* the page pair after the uploads.
PageResume(p) ==
    /\ pstat[p] = "run"
    /\ GatherReady(ptask[p])
    /\ IF GatherFailed(ptask[p])
       THEN /\ pstat' = [q \in Pages |->
                  IF q = p \/ (pstat[q] = "run" /\ PageFailureCancels(p, q))
                  THEN "failed" ELSE pstat[q]]
            /\ finish_order' = Append(finish_order, p)
            /\ UNCHANGED <<pstage, ptask, work>>
       ELSE IF pstage[p] = "store"
            THEN /\ pstat' = [pstat EXCEPT ![p] = "done"]
                 /\ finish_order' = Append(finish_order, p)
                 /\ UNCHANGED <<pstage, ptask, work>>
            ELSE /\ pstage' = [pstage EXCEPT ![p] = NextStage(@)]
                 /\ ptask' = [ptask EXCEPT ![p] = [s \in Sides |-> "run"]]
                 /\ work' = [work EXCEPT !["opt"] = @ \cup StageKeys(NextStage(pstage[p]), p)]
                 /\ UNCHANGED <<pstat, finish_order>>
    /\ UNCHANGED <<inputVars, otherVars, invocations, env, workspace, pc, excel_path, num_pages, seqVars,
                   rast, result_images, outcome, failed, succeeded, stored>>

\* The order in which gather hands the page results to the orchestrator:
\* the order of its arguments.
SeqOfRange(n) == [i \in 1 .. n |-> i - 1]

GatherOrder(n) == SeqOfRange(n)

\* A collection that keeps the pages whose pipeline raised.
PageReturnedAlways(st) == TRUE

\* not isinstance(result, Exception): the pipeline returned its page pair.
PageReturned(st) == st = "done"

\* for idx, result in enumerate(page_results): exceptions are skipped, the
\* page pairs are appended.
RECURSIVE Collect(_, _)
Collect(order, st) ==
    IF order = <<>> THEN <<>>
    ELSE (IF PageReturned(st[Head(order)]) THEN <<PagePair("opt", Head(order))>> ELSE <<>>)
         \o Collect(Tail(order), st)

\* An orchestrator without the empty-result check.
NoPageProcessedIgnored(res) == FALSE

\* if not result_images: raise Exception("Failed to process any pages")
NoPageProcessed(res) == res = <<>>

\* The gather of the page pipelines resumes the orchestrator once every
\* pipeline has ended: collect, then raise or return.
OptCollect ==
    /\ pc["opt"] = "gather"
    /\ \A p \in PageRange(num_pages["opt"]["EXCEL"]) \cap Pages : pstat[p] \in {"done", "failed"}
    /\ LET res == Collect(GatherOrder(num_pages["opt"]["EXCEL"]), pstat)
       IN /\ result_images' = [result_images EXCEPT !["opt"] = res]
          /\ IF NoPageProcessed(res)
             THEN Finish("opt", Failed("NoPages"))
             ELSE Finish("opt", Completed(res))
    /\ UNCHANGED <<inputVars, otherVars, invocations, env, workspace, excel_path, num_pages, seqVars,
                   optVars, work, failed, succeeded, stored>>

----------------------------------------------------------------------------
\* The data flow of one page: extract_OCR_texts_2 of both sides,
\* find_text_differences, draw_bounding_boxes of both sides.

\* Most tokens the recognition engine returns for one page image.
MaxTokens == 2

\* Characters of the token texts.
Whitespace == {" "}
Lowercase == <<"a", "b", "c", "d", "e", "f", "g", "h", "i", "j", "k", "l", "m",
              "n", "o", "p", "q", "r", "s", "t", "u", "v", "w", "x", "y", "z">>
Uppercase == <<"A", "B", "C", "D", "E", "F", "G", "H", "I", "J", "K", "L", "M",
              "N", "O", "P", "Q", "R", "S", "T", "U", "V", "W", "X", "Y", "Z">>
UpperOf ==
    [c \in {Lowercase[i] : i \in 1 .. 26} |->
        Uppercase[CHOOSE i \in 1 .. 26 : Lowercase[i] = c]]
Upper(c) == IF c \in DOMAIN UpperOf THEN UpperOf[c] ELSE c

\* Token texts the engine may return (never blank: blank items are dropped).
Tokens == {<<"a">>, <<"a", " ", "b">>, <<"A", "B">>}

\* Bounding boxes (x, y, width, height) the engine may return.
BBoxes == {<<0, 0, 2, 1>>, <<3, 5, 1, 1>>}

\* re.sub(r"\s+", "", text): every run of whitespace is replaced by "".
RECURSIVE RemoveWhitespace(_)
RemoveWhitespace(text) ==
    IF text = <<>> THEN <<>>
    ELSE IF Head(text) \in Whitespace THEN RemoveWhitespace(Tail(text))
         ELSE <<Head(text)>> \o RemoveWhitespace(Tail(text))

\* str.upper()
ToUpper(text) == [i \in 1 .. Len(text) |-> Upper(text[i])]

\* A normalization that forgets to uppercase.
normalizeNoUpper(text) == RemoveWhitespace(text)

\* def normalize(text): return re.sub(r"\s+", "", text).upper()
normalize(text) == ToUpper(RemoveWhitespace(text))

\* x in list
InList(x, list) == \E j \in 1 .. Len(list) : list[j] = x

\* for i, text_norm in enumerate(norm_a): if text_norm not in norm_b:
\* diff_indices.append(i), from position i on (indices count from 0).
RECURSIVE DiffLoop(_, _, _)
DiffLoop(norm_a, norm_b, i) ==
    IF i > Len(norm_a) THEN <<>>
    ELSE (IF InList(norm_a[i], norm_b) THEN <<>> ELSE <<i - 1>>)
         \o DiffLoop(norm_a, norm_b, i + 1)

\* [normalize(t) for t in texts]
NormAll(ts) == [i \in 1 .. Len(ts) |-> normalize(ts[i])]

\* A differencer that pairs tokens off one for one: an occurrence is
\* flagged when the other side has fewer occurrences of its normalized text.
DiffIndicesCounting(texts_a, texts_b) ==
    LET na == NormAll(texts_a)
        nb == NormAll(texts_b)
        flagged == {i \in 1 .. Len(na) :
                       Cardinality({k \in 1 .. i : na[k] = na[i]})
                          > Cardinality({j \in 1 .. Len(nb) : nb[j] = na[i]})}
    IN [k \in 1 .. Cardinality(flagged) |->
           (CHOOSE x \in flagged : Cardinality({y \in flagged : y < x}) = k - 1) - 1]

\* One of the two loops: the indices of texts_a without a match in texts_b.
DiffIndices(texts_a, texts_b) == DiffLoop(NormAll(texts_a), NormAll(texts_b), 1)

\* A differencer that looks the normalized text up in the raw other list.
find_text_differences_raw(texts1, texts2) ==
    [EXCEL |-> DiffLoop(NormAll(texts1), texts2, 1),
     PDF |-> DiffLoop(NormAll(texts2), texts1, 1)]

\* find_text_differences(texts1, texts2) -> (diff_indices1, diff_indices2)
find_text_differences(texts1, texts2) ==
    [EXCEL |-> DiffIndices(texts1, texts2), PDF |-> DiffIndices(texts2, texts1)]

\* cv2.rectangle(image, (x, y), (x + w, y + h), ...)
Rectangle(b) == <<b[1], b[2], b[1] + b[3], b[2] + b[4]>>

\* A bounds check that is off by one and skips the last box.
IndexInRangeShort(idx, boxes) == idx < Len(boxes) - 1

\* if idx < len(bboxes)
IndexInRange(idx, boxes) == idx < Len(boxes)

\* for idx in indices: if idx < len(bboxes): draw the rectangle of
\* bboxes[idx]; the rectangles drawn, in order.
RECURSIVE DrawLoop(_, _)
DrawLoop(boxes, indices) ==
    IF indices = <<>> THEN <<>>
    ELSE (IF IndexInRange(Head(indices), boxes)
          THEN <<Rectangle(boxes[Head(indices) + 1])>> ELSE <<>>)
         \o DrawLoop(boxes, Tail(indices))

\* Sequences of at most n elements of S.
SeqUpTo(S, n) == UNION {[1 .. k -> S] : k \in 0 .. n}

\* extract_OCR_texts_2 of one side returns its texts and boxes, one box per
\* text.
extract_OCR_texts_2(side) ==
    /\ page_pc.phase = "extract"
    /\ side \notin page_pc.done
    /\ \E ts \in SeqUpTo(Tokens, MaxTokens) :
         \E bs \in [1 .. Len(ts) -> BBoxes] :
            /\ texts' = [texts EXCEPT ![side] = ts]
            /\ bboxes' = [bboxes EXCEPT ![side] = bs]
    /\ page_pc' = [page_pc EXCEPT !.done = @ \cup {side}]
    /\ UNCHANGED <<pairVars, clsVars, resVars, diff_indices, rectangles>>

\* excel_diff_indices, pdf_diff_indices = find_text_differences(excel_texts,
\* pdf_texts), once both extractions have returned.
DiffPage ==
    /\ page_pc.phase = "extract"
    /\ page_pc.done = Sides
    /\ diff_indices' = find_text_differences(texts["EXCEL"], texts["PDF"])
    /\ page_pc' = [phase |-> "draw", done |-> {}]
    /\ UNCHANGED <<pairVars, clsVars, resVars, texts, bboxes, rectangles>>

\* draw_bounding_boxes(img_path, bboxes, diff_indices) of one side.
draw_bounding_boxes(side) ==
    /\ page_pc.phase = "draw"
    /\ side \notin page_pc.done
    /\ rectangles' = [rectangles EXCEPT ![side] = DrawLoop(bboxes[side], diff_indices[side])]
    /\ page_pc' = [phase |-> IF page_pc.done \cup {side} = Sides THEN "end" ELSE "draw",
                   done |-> page_pc.done \cup {side}]
    /\ UNCHANGED <<pairVars, clsVars, resVars, texts, bboxes, diff_indices>>

PageInit ==
    /\ PairIdle
    /\ ClsIdle
    /\ ResIdle
    /\ texts = [s \in Sides |-> <<>>]
    /\ bboxes = [s \in Sides |-> <<>>]
    /\ diff_indices = [s \in Sides |-> <<>>]
    /\ rectangles = [s \in Sides |-> <<>>]
    /\ page_pc = [phase |-> "extract", done |-> {}]

PageNext ==
    \/ \E side \in Sides : extract_OCR_texts_2(side)
    \/ DiffPage
    \/ \E side \in Sides : draw_bounding_boxes(side)

PageSpec == PageInit /\ [][PageNext]_vars

----------------------------------------------------------------------------
\* classify_input_documents

\* Most entries of a task directory.
MaxFiles == 3

\* Calls made on the same directory.
Calls == 2

\* The entries a task directory may hold: regular files and a directory.
Universe ==
    {[stem |-> <<"c", "i", "&", "p", "k", "l">>, ext |-> <<".", "x", "l", "s", "x">>, is_file |-> TRUE],
     [stem |-> <<"c", "i">>, ext |-> <<".", "x", "l", "s", "x">>, is_file |-> TRUE],
     [stem |-> <<"C", "i", "2">>, ext |-> <<".", "x", "l", "s">>, is_file |-> TRUE],
     [stem |-> <<"p", "k", "l">>, ext |-> <<".", "x", "l", "s", "x">>, is_file |-> TRUE],
     [stem |-> <<"t", "k", "x", "1">>, ext |-> <<".", "x", "l", "s", "x">>, is_file |-> TRUE],
     [stem |-> <<"t", "k", "x", "2">>, ext |-> <<".", "x", "l", "s">>, is_file |-> TRUE],
     [stem |-> <<"s", "e", "t", "t", "l", "e", "_", "c", "i", "&", "p", "k", "l">>, ext |-> <<".", "x", "l", "s", "x">>, is_file |-> TRUE],
     [stem |-> <<"v", "a", "t">>, ext |-> <<".", "x", "m", "l">>, is_file |-> TRUE],
     [stem |-> <<"v", "a", "t", "_", "p", "o">>, ext |-> <<".", "x", "l", "s", "x">>, is_file |-> TRUE],
     [stem |-> <<"c", "i">>, ext |-> <<".", "p", "d", "f">>, is_file |-> TRUE],
     [stem |-> <<"p", "k", "l", "_", "d", "i", "r">>, ext |-> <<".", "x", "l", "s", "x">>, is_file |-> FALSE]}

\* The keys of the returned dict that hold one file name.
SingleRoles == {"settle_file_name", "einvoice_file_name", "cinvoice_plist_file_name",
                "cinvoice_file_name", "packing_list_file_name", "PO_SO_file_name"}

\* No file name: the key is not in the dict.
NoName == <<>>

\* file_path.name
FileName(e) == e.stem \o e.ext

\* needle in hay
Contains(hay, needle) ==
    \E i \in 1 .. Len(hay) - Len(needle) + 1 :
        SubSeq(hay, i, i + Len(needle) - 1) = needle

\* file_ext in [".XLSX", ".XLS"]
IsSpreadsheetExt(ext) == ext \in {<<".", "X", "L", "S", "X">>, <<".", "X", "L", "S">>}

\* file_ext == ".XML"
IsXmlExt(ext) == ext = <<".", "X", "M", "L">>

\* A test that ignores the extension.
RuleMatchesAnyExt(rule, upper, ext) ==
    CASE rule = "settle_file_name" -> Contains(upper, <<"S", "E", "T", "T", "L", "E">>)
      [] rule = "einvoice_file_name" ->
            Contains(upper, <<"V", "A", "T">>) \/ Contains(upper, <<"E", "-", "I", "N", "V">>)
      [] rule = "cinvoice_plist_file_name" -> Contains(upper, <<"C", "I", "&", "P", "K", "L">>)
      [] rule = "cinvoice_file_name" -> Contains(upper, <<"C", "I">>)
      [] rule = "packing_list_file_name" -> Contains(upper, <<"P", "K", "L">>)
      [] rule = "export_CD_file_name" -> Contains(upper, <<"T", "K", "X">>)
      [] rule = "PO_SO_file_name" ->
            \E keyword \in {<<"P", "O">>, <<"S", "O">>, <<"P", "C">>, <<"S", "C">>} :
                Contains(upper, keyword)

\* The condition of each branch of the if/elif chain.
RuleMatches(rule, upper, ext) ==
    CASE rule = "settle_file_name" ->
            Contains(upper, <<"S", "E", "T", "T", "L", "E">>) /\ IsSpreadsheetExt(ext)
      [] rule = "einvoice_file_name" ->
            /\ Contains(upper, <<"V", "A", "T">>) \/ Contains(upper, <<"E", "-", "I", "N", "V">>)
            /\ IsXmlExt(ext)
      [] rule = "cinvoice_plist_file_name" ->
            Contains(upper, <<"C", "I", "&", "P", "K", "L">>) /\ IsSpreadsheetExt(ext)
      [] rule = "cinvoice_file_name" ->
            Contains(upper, <<"C", "I">>) /\ IsSpreadsheetExt(ext)
      [] rule = "packing_list_file_name" ->
            Contains(upper, <<"P", "K", "L">>) /\ IsSpreadsheetExt(ext)
      [] rule = "export_CD_file_name" ->
            Contains(upper, <<"T", "K", "X">>) /\ IsSpreadsheetExt(ext)
      [] rule = "PO_SO_file_name" ->
            /\ \E keyword \in {<<"P", "O">>, <<"S", "O">>, <<"P", "C">>, <<"S", "C">>} :
                  Contains(upper, keyword)
            /\ IsSpreadsheetExt(ext)

\* A chain that tests "CI" before "CI&PKL".
RuleOrderCiFirst ==
    <<"settle_file_name", "einvoice_file_name", "cinvoice_file_name",
      "cinvoice_plist_file_name", "packing_list_file_name", "export_CD_file_name",
      "PO_SO_file_name">>

\* The branches of the if/elif chain, in the order they are tested.
RuleOrder ==
    <<"settle_file_name", "einvoice_file_name", "cinvoice_plist_file_name",
      "cinvoice_file_name", "packing_list_file_name", "export_CD_file_name",
      "PO_SO_file_name">>

\* The branch the chain takes for a file, "" when it takes none.
BranchTaken(e) ==
    LET upper == ToUpper(FileName(e))
        ext == ToUpper(e.ext)
        hits == {i \in 1 .. Len(RuleOrder) : RuleMatches(RuleOrder[i], upper, ext)}
    IN IF hits = {} THEN ""
       ELSE RuleOrder[CHOOSE i \in hits : \A j \in hits : i <= j]

\* "cinvoice_plist_file_name" not in result or
\* result["cinvoice_plist_file_name"] != filename
NotTheCombinedFile(res, filename) ==
    res["cinvoice_plist_file_name"] = NoName \/ res["cinvoice_plist_file_name"] # filename

\* An export list that keeps only the last file.
KeepLastExport(list, filename) == <<filename>>

\* export_cd_files.append(filename)
AppendExport(list, filename) == Append(list, filename)

\* The dict as the caller gets it: the keys present, the name under each
\* single-valued key, the list under "export_CD_file_name".
ReturnedDict(res, exports) ==
    [keys |-> {r \in SingleRoles : res[r] # NoName}
                 \cup (IF exports # <<>> THEN {"export_CD_file_name"} ELSE {}),
     names |-> res,
     exports |-> exports]

\* return {}
EmptyDict == ReturnedDict([r \in SingleRoles |-> NoName], <<>>)

ClsInit ==
    /\ PairIdle
    /\ PageIdle
    /\ ResIdle
    /\ task_dir_exists \in BOOLEAN
    /\ entries \in {E \in SUBSET Universe : Cardinality(E) <= MaxFiles}
    /\ ~task_dir_exists => entries = {}
    /\ cls_pc = "idle"
    /\ to_scan = {}
    /\ result = [r \in SingleRoles |-> NoName]
    /\ export_cd_files = <<>>
    /\ returned = <<>>

\* Entry of classify_input_documents: the directory check, the empty dict
\* and list.
ClassifyStart ==
    /\ cls_pc = "idle"
    /\ Len(returned) < Calls
    /\ IF ~task_dir_exists
       THEN /\ returned' = Append(returned, EmptyDict)
            /\ UNCHANGED <<cls_pc, to_scan, result, export_cd_files>>
       ELSE /\ cls_pc' = "scan"
            /\ to_scan' = entries
            /\ result' = [r \in SingleRoles |-> NoName]
            /\ export_cd_files' = <<>>
            /\ UNCHANGED returned
    /\ UNCHANGED <<pairVars, pageVars, resVars, task_dir_exists, entries>>

\* One turn of the loop over task_dir.iterdir(), which yields the entries
\* in an order of its own.
ScanEntry ==
    /\ cls_pc = "scan"
    /\ \E e \in to_scan :
         LET filename == FileName(e)
             branch == BranchTaken(e)
         IN /\ to_scan' = to_scan \ {e}
            /\ IF ~e.is_file \/ branch = ""
               THEN UNCHANGED <<result, export_cd_files>>
               ELSE IF branch = "export_CD_file_name"
               THEN /\ export_cd_files' = AppendExport(export_cd_files, filename)
                    /\ UNCHANGED result
               ELSE IF branch \in {"cinvoice_file_name", "packing_list_file_name"}
                       /\ ~NotTheCombinedFile(result, filename)
               THEN UNCHANGED <<result, export_cd_files>>
               ELSE /\ result' = [result EXCEPT ![branch] = filename]
                    /\ UNCHANGED export_cd_files
    /\ UNCHANGED <<pairVars, pageVars, resVars, task_dir_exists, entries, cls_pc, returned>>

\* After the loop: the export list goes into the dict if it is not empty,
\* and the dict is returned.
ClassifyReturn ==
    /\ cls_pc = "scan"
    /\ to_scan = {}
    /\ returned' = Append(returned, ReturnedDict(result, export_cd_files))
    /\ cls_pc' = "idle"
    /\ UNCHANGED <<pairVars, pageVars, resVars, task_dir_exists, entries, to_scan, result,
                   export_cd_files>>

ClsNext == ClassifyStart \/ ScanEntry \/ ClassifyReturn

ClsSpec == ClsInit /\ [][ClsNext]_vars

----------------------------------------------------------------------------
Next ==
    \/ \E v \in Variants : Start(v)
    \/ \E v \in Variants : convert_excel_to_pdf(v)
    \/ \E side \in Sides : SeqRaster(side)
    \/ SeqCheck
    \/ SeqPageStep
    \/ SeqReturn
    \/ \E side \in Sides : OptRasterDone(side)
    \/ OptRasterJoin
    \/ \E p \in Pages, side \in Sides : PageTaskDone(p, side)
    \/ \E p \in Pages : PageResume(p)
    \/ OptCollect

Spec == Init /\ [][Next]_vars

----------------------------------------------------------------------------
\* A caller that calls again on the same task directory

\* Most calls of one variant on one task directory.
MaxInvocations == 2

\* The caller calls variant v again with the same arguments: the call
\* starts with fresh locals on the task directory and bucket as they are.
Reinvoke(v) ==
    /\ pc[v] = "done"
    /\ invocations[v] < MaxInvocations
    /\ pc' = [pc EXCEPT ![v] = "idle"]
    /\ outcome' = [outcome EXCEPT ![v] = NotStarted]
    /\ excel_path' = [excel_path EXCEPT ![v] = excel_file_name]
    /\ num_pages' = [num_pages EXCEPT ![v] = [s \in Sides |-> -1]]
    /\ result_images' = [result_images EXCEPT ![v] = <<>>]
    /\ work' = [work EXCEPT ![v] = {}]
    /\ failed' = [failed EXCEPT ![v] = {}]
    /\ succeeded' = [succeeded EXCEPT ![v] = {}]
    /\ IF v = "seq"
       THEN /\ page_num' = 0
            /\ seq_step' = 1
            /\ UNCHANGED optVars
       ELSE /\ rast' = [s \in Sides |-> "idle"]
            /\ pstat' = [p \in Pages |-> "idle"]
            /\ pstage' = [p \in Pages |-> "ocr"]
            /\ ptask' = [p \in Pages |-> [s \in Sides |-> "idle"]]
            /\ finish_order' = <<>>
            /\ UNCHANGED seqVars
    /\ UNCHANGED <<inputVars, otherVars, invocations, env, workspace, stored>>

\* Most pages of a document in the runs that are repeated.
RerunPages == 1

RerunInit == Init /\ doc_pages \in [Sides -> 0 .. RerunPages]

RerunNext == Next \/ \E v \in Variants : Reinvoke(v)

RerunSpec == RerunInit /\ [][RerunNext]_vars

-----------------------------------------------------------------------------
\* retry_with_backoff, and the decorators of extract_text_from_image

\* Largest max_retries of the wrappers that are tried.
MaxRetries == 3

\* The max_delay values of the wrappers that are tried; 60 is the default.
MaxDelays == {2, 60}

\* random.random() in tenths: the draws that are tried.
JitterDraws == {0, 5, 9}

\* Defaults of the decorator.
initial_delay == 1
exponential_base == 2
jitter == TRUE

\* The retry configuration of the OCR service.
MAX_RETRIES == 3
MAX_DELAY == 10

\* The exception classes that occur; "Exception" catches all of them.
Exceptions == {"RateLimitError", "APIError", "TimeoutError", "ValueError",
               "ServiceUnavailableException"}

\* retry_on of the OCR service's decorator.
RemoteErrors == {"RateLimitError", "APIError"}

\* What one invocation of the wrapped function can meet: success, or an
\* exception raised by the call it makes (for the OCR service the model call,
\* TimeoutError when with_timeout expires).
Met == {"ok", "RateLimitError", "APIError", "TimeoutError", "ValueError"}

\* What the wrapper sees from one invocation. The body of
\* extract_text_from_image catches RateLimitError, APIError and Exception in
\* turn and raises ServiceUnavailableException from each; the timeout is raised
\* by with_timeout, outside the body. Any other function raises what it met.
Surfaced(w, met) ==
    IF w = "extract_text_from_image"
       /\ met \in {"RateLimitError", "APIError", "ValueError"}
    THEN "ServiceUnavailableException"
    ELSE met

\* attempt == max_retries + 1: one more round than the loop makes.
LastAttemptLate(a) == a = max_retries + 1

\* attempt == max_retries
LastAttempt(a) == a = max_retries

\* min(initial_delay * (exponential_base**attempt), max_delay), then the
\* jitter factor 0.5 + random.random(); in tenths of a second for the draw r.
Delay(a, r) ==
    LET raw == initial_delay * (exponential_base ^ a)
        capped == IF raw < max_delay THEN raw ELSE max_delay
    IN  IF jitter THEN capped * (5 + r) ELSE capped * 10

\* One round of the wrapper's loop: await func, then return its result, let
\* its exception propagate, re-raise it on the last round, or compute the
\* delay and start sleeping.
Invoke ==
    /\ rw_pc = "call"
    /\ \E met \in Met :
          LET e == Surfaced(wrapped, met)
          IN  /\ remote' = Append(remote, met)
              /\ IF e = "ok"
                 THEN /\ rw_pc' = "done"
                      /\ rw_result' = [kind |-> "return", of |-> attempt + 1]
                      /\ UNCHANGED slept
                 ELSE IF e \notin retry_on \/ LastAttempt(attempt)
                 THEN /\ rw_pc' = "done"
                      /\ rw_result' = [kind |-> "raise", exc |-> e,
                                       of |-> attempt + 1]
                      /\ UNCHANGED slept
                 ELSE /\ \E r \in JitterDraws :
                            slept' = Append(slept, Delay(attempt, r))
                      /\ rw_pc' = "sleep"
                      /\ UNCHANGED rw_result
    /\ UNCHANGED <<pairVars, pageVars, clsVars, cbVars, wrapped, max_retries,
                   max_delay, retry_on, attempt>>

\* asyncio.sleep(delay) returns and the loop goes to its next round.
Sleep ==
    /\ rw_pc = "sleep"
    /\ attempt' = attempt + 1
    /\ rw_pc' = "call"
    /\ UNCHANGED <<pairVars, pageVars, clsVars, cbVars, wrapped, max_retries,
                   max_delay, retry_on, remote, slept, rw_result>>

\* One call of a wrapper: of the OCR service with its configuration, or of
\* any function with the decorator's parameters drawn.
RetryInit ==
    /\ PairIdle
    /\ PageIdle
    /\ ClsIdle
    /\ BreakerIdle
    /\ wrapped \in {"func", "extract_text_from_image"}
    /\ IF wrapped = "extract_text_from_image"
       THEN /\ max_retries = MAX_RETRIES
            /\ max_delay = MAX_DELAY
            /\ retry_on = RemoteErrors
       ELSE /\ max_retries \in 0 .. MaxRetries
            /\ max_delay \in MaxDelays
            /\ retry_on \in {Exceptions, RemoteErrors}
    /\ rw_pc = "call"
    /\ attempt = 0
    /\ remote = <<>>
    /\ slept = <<>>
    /\ rw_result = <<>>

RetryNext == Invoke \/ Sleep

RetrySpec == RetryInit /\ [][RetryNext]_vars

\* Every await of the wrapper returns: the function and the sleep finish.
RetryFairSpec == RetrySpec /\ WF_vars(RetryNext)

-----------------------------------------------------------------------------
\* CircuitBreaker

\* Largest failure_threshold of the breakers that are tried.
MaxThreshold == 2

\* Most calls made through one breaker.
MaxBreakerCalls == 3

\* Latest time.time() of a run, in seconds after the breaker was built.
MaxTime == 130

\* The default recovery_timeout, in seconds.
recovery_timeout == 60

\* The time that can pass between two steps, in seconds.
Elapses == {30, 61}

\* What the protected function does in one call: it returns a coroutine whose
\* awaited execution returns ("ok") or raises expected_exception
\* ("await_raises"), as every async def does, or it raises when it is called,
\* before any awaitable exists, an expected_exception ("call_raises") or
\* another exception ("call_raises_other").
Behaviours == {"ok", "await_raises", "call_raises", "call_raises_other"}

\* Whether func(*args, **kwargs) itself raises.
RaisesWhenCalled(b) == b \in {"call_raises", "call_raises_other"}

\* time.time() - last_failure_time > recovery_timeout, with the None test.
RecoveryDue ==
    /\ last_failure_time # <<>>
    /\ now - last_failure_time[1] > recovery_timeout

\* The state in which call goes on to the function, when it does.
StateAfterGate == IF cb_state = "open" THEN "half_open" ELSE cb_state

\* One entry of the history: what the call did, when, in which state.
Entry(did, st) == [did |-> did, at |-> now, in |-> st]

\* CircuitBreaker.call, up to its return or raise. While OPEN and before the
\* recovery test passes it raises CircuitBreakerOpenError; otherwise it calls
\* the function. An expected_exception raised by that call goes through
\* _handle_failure; a coroutine is handed to _handle_success, whose coroutine
\* call returns to its caller unawaited.
call(b) ==
    /\ cb_pc = "idle"
    /\ Len(cb_log) < MaxBreakerCalls
    /\ IF cb_state = "open" /\ ~RecoveryDue
       THEN /\ cb_log' = Append(cb_log, Entry("rejected", cb_state))
            /\ UNCHANGED <<cb_state, failure_count, last_failure_time, cb_pc>>
       ELSE IF b = "call_raises"
       THEN /\ failure_count' = failure_count + 1
            /\ last_failure_time' = <<now>>
            /\ cb_state' = IF failure_count + 1 >= failure_threshold
                           THEN "open"
                           ELSE StateAfterGate
            /\ cb_log' = Append(cb_log, Entry("raised_when_called",
                                              StateAfterGate))
            /\ UNCHANGED cb_pc
       ELSE IF b = "call_raises_other"
       THEN /\ cb_state' = StateAfterGate
            /\ cb_log' = Append(cb_log, Entry("raised_when_called",
                                              StateAfterGate))
            /\ UNCHANGED <<failure_count, last_failure_time, cb_pc>>
       ELSE /\ cb_state' = StateAfterGate
            /\ cb_pc' = b
            /\ UNCHANGED <<failure_count, last_failure_time, cb_log>>
    /\ UNCHANGED <<pairVars, pageVars, clsVars, retryVars, failure_threshold,
                   now>>

\* The caller awaits what call returned: _handle_success awaits the coroutine
\* of the function. If that returns, a HALF_OPEN breaker closes and its count
\* is reset; if it raises, the exception leaves _handle_success as it is.
_handle_success ==
    /\ cb_pc # "idle"
    /\ IF cb_pc = "ok"
       THEN /\ cb_log' = Append(cb_log, Entry("returned", cb_state))
            /\ IF cb_state = "half_open"
               THEN /\ cb_state' = "closed"
                    /\ failure_count' = 0
               ELSE UNCHANGED <<cb_state, failure_count>>
       ELSE /\ cb_log' = Append(cb_log, Entry("raised_when_awaited", cb_state))
            /\ UNCHANGED <<cb_state, failure_count>>
    /\ cb_pc' = "idle"
    /\ UNCHANGED <<pairVars, pageVars, clsVars, retryVars, failure_threshold,
                   last_failure_time, now>>

\* Time passes between two steps.
Tick ==
    /\ \E d \in Elapses :
          /\ now + d <= MaxTime
          /\ now' = now + d
    /\ UNCHANGED <<pairVars, pageVars, clsVars, retryVars, failure_threshold,
                   cb_state, failure_count, last_failure_time, cb_pc, cb_log>>

BreakerInit ==
    /\ PairIdle
    /\ PageIdle
    /\ ClsIdle
    /\ RetryIdle
    /\ failure_threshold \in 1 .. MaxThreshold
    /\ cb_state = "closed"
    /\ failure_count = 0
    /\ last_failure_time = <<>>
    /\ now = 0
    /\ cb_pc = "idle"
    /\ cb_log = <<>>

BreakerNext ==
    \/ \E b \in Behaviours : call(b)
    \/ _handle_success
    \/ Tick

BreakerSpec == BreakerInit /\ [][BreakerNext]_vars

----------------------------------------------------------------------------
\* Vocabulary of the properties

Done(v) == pc[v] = "done"

\* Both rasterizations of run v have reported a page count.
Counted(v) == num_pages[v]["EXCEL"] >= 0 /\ num_pages[v]["PDF"] >= 0

\* The page counts of run v have been reported and are equal.
Validated(v) == Counted(v) /\ num_pages[v]["EXCEL"] = num_pages[v]["PDF"]

\* The six steps of page p.
PageKeys(p) == {"ocr", "draw", "store"} \X {p} \X Sides

\* No collaborator has refused a step of page p.
PageUnrefused(p) == \A k \in PageKeys(p) : env[k] # "fail"

\* Run v made every step of page p and none raised.
PageSucceeded(v, p) == PageKeys(p) \subseteq work[v] /\ PageKeys(p) \cap failed[v] = {}

\* The pages of run v in page order, as the caller should see them.
AllPagePairs(v) == [i \in 1 .. num_pages[v]["EXCEL"] |-> PagePair(v, i - 1)]

\* res lists page pairs of run v in strictly increasing page order.
InPageOrder(v, res) ==
    \A i, j \in 1 .. Len(res) :
        i < j => \E p, q \in Pages : p < q /\ res[i] = PagePair(v, p) /\ res[j] = PagePair(v, q)

----------------------------------------------------------------------------
\* C1: in both variants, when the rasterizations report page counts m and n
\* with m # n, the run ends in a Page Mismatch Failure carrying exactly
\* (m, n), and the caller gets no page pair.
C1_PageMismatchCarriesCounts ==
    \A v \in Variants :
        (Done(v) /\ Counted(v) /\ num_pages[v]["EXCEL"] # num_pages[v]["PDF"])
        => /\ outcome[v].status = "Failed"
           /\ outcome[v].error = "PageMismatch"
           /\ outcome[v].counts = <<num_pages[v]["EXCEL"], num_pages[v]["PDF"]>>
           /\ outcome[v].result = <<>>
           /\ result_images[v] = <<>>

C1_Witness ==
    /\ doc_pages["EXCEL"] = 2 /\ doc_pages["PDF"] = 1
    /\ \A v \in Variants : Done(v) /\ outcome[v].counts = <<2, 1>>

C3_ReturnedInPageOrder ==
    (Done("opt") /\ Validated("opt") /\ num_pages["opt"]["EXCEL"] >= 2
       /\ (\A p \in PageRange(num_pages["opt"]["EXCEL"]) : PageUnrefused(p))
       /\ Len(finish_order) = num_pages["opt"]["EXCEL"]
       /\ finish_order # GatherOrder(num_pages["opt"]["EXCEL"]))
    => /\ outcome["opt"].status = "Completed"
       /\ outcome["opt"].result = AllPagePairs("opt")
       /\ InPageOrder("opt", outcome["opt"].result)

\* C4: on the same input and the same collaborator answers, the two
\* variants end in the same observable outcome: both return the same
\* sequence, or both fail.
C4_SameOutcome ==
    (Done("seq") /\ Done("opt"))
    => \/ /\ outcome["seq"].status = "Completed"
          /\ outcome["opt"].status = "Completed"
          /\ outcome["seq"].result = outcome["opt"].result
       \/ /\ outcome["seq"].status = "Failed"
          /\ outcome["opt"].status = "Failed"

\* C5: in the optimized variant, after the page counts are validated, if
\* one page gets through its pipeline unrefused and another page fails,
\* the orchestrator completes and returns exactly the page pairs of the
\* pages that got through.
C5_PartialResult ==
    LET n == num_pages["opt"]["EXCEL"]
        good == {p \in PageRange(n) : PageUnrefused(p)}
    IN (Done("opt") /\ Validated("opt") /\ good # {} /\ good # PageRange(n))
       => /\ outcome["opt"].status = "Completed"
          /\ Len(outcome["opt"].result) = Cardinality(good)
          /\ \A p \in good : \E i \in 1 .. Len(outcome["opt"].result) :
                outcome["opt"].result[i] = PagePair("opt", p)

\* C6 as stated: in the sequential variant a failure of one page is
\* contained: every remaining page is still processed.
C6_SeqContainsPageFailure ==
    (Done("seq") /\ Validated("seq") /\ failed["seq"] # {})
    => \A p \in PageRange(num_pages["seq"]["EXCEL"]) : PageKeys(p) \cap work["seq"] # {}

\* C6 as amended: in the sequential variant the first failing step of a
\* page ends the comparison: the failure is re-raised to the caller, no
\* step of a later page is made and no result is returned.
C6_SeqAbortsOnPageFailure ==
    failed["seq"] # {}
    => /\ Done("seq")
       /\ outcome["seq"].status = "Failed"
       /\ outcome["seq"].result = <<>>
       /\ Cardinality(failed["seq"]) = 1
       /\ \A f \in failed["seq"] :
             /\ f[2] = page_num
             /\ outcome["seq"].error = StepError(f[1])
             /\ \A k \in work["seq"] : k[2] <= f[2]

C6_Witness ==
    /\ Done("seq")
    /\ num_pages["seq"] = [s \in Sides |-> 2]
    /\ failed["seq"] = {<<"ocr", 0, "PDF">>}
    /\ work["seq"] = {<<"ocr", 0, "EXCEL">>, <<"ocr", 0, "PDF">>}

\* C7: for a validated page count n >= 1, if no page gets through its
\* pipeline, the run ends in failure and the caller gets no sequence, not
\* even an empty one.
C7_AllPagesFailed ==
    \A v \in Variants :
        (Done(v) /\ Validated(v) /\ num_pages[v]["EXCEL"] >= 1
           /\ \A p \in PageRange(num_pages[v]["EXCEL"]) : ~PageSucceeded(v, p))
        => /\ outcome[v].status = "Failed"
           /\ outcome[v].result = <<>>

C7_Witness ==
    /\ \A v \in Variants : Done(v) /\ Validated(v) /\ num_pages[v]["EXCEL"] = 2
    /\ \A p \in PageRange(2) : pstat[p] = "failed" /\ PageKeys(p) \cap failed["opt"] # {}
    /\ outcome["opt"].error = "NoPages"
    /\ outcome["seq"].error = "Recognition"

\* C8: in the optimized variant a failure in one page pipeline never ends a
\* sibling pipeline: a pipeline fails only on a failed step of its own
\* current stage, the orchestrator resumes only when every pipeline has
\* ended on its own, and every pipeline that ended well is in the result.
C8_NoSiblingCancelled ==
    /\ \A p \in Pages :
          pstat[p] = "failed" => \E s \in Sides : <<pstage[p], p, s>> \in failed["opt"]
    /\ (Done("opt") /\ Validated("opt"))
       => \A p \in PageRange(num_pages["opt"]["EXCEL"]) :
             /\ pstat[p] \in {"done", "failed"}
             /\ pstat[p] = "done"
                => \E i \in 1 .. Len(outcome["opt"].result) :
                      outcome["opt"].result[i] = PagePair("opt", p)

C8_Witness ==
    /\ Done("opt")
    /\ num_pages["opt"] = [s \in Sides |-> 2]
    /\ finish_order = <<0, 1>>
    /\ <<"ocr", 0, "EXCEL">> \in failed["opt"]
    /\ pstage[0] = "ocr"
    /\ pstage[1] = "store"
    /\ StageKeys("store", 1) \subseteq work["opt"]

\* C9: in both variants, once the two page counts are known to differ no
\* per-page step (extraction, drawing, upload) is ever started, nothing is
\* uploaded, and a run that ends in a Page Mismatch Failure has started
\* none.
C9_NoPageWorkOnMismatch ==
    \A v \in Variants :
        ((Counted(v) /\ num_pages[v]["EXCEL"] # num_pages[v]["PDF"])
           \/ outcome[v].error = "PageMismatch")
        => /\ work[v] = {}
           /\ stored[v] = {}
           /\ (v = "opt" => \A p \in Pages : pstat[p] = "idle")

C9_Witness ==
    /\ doc_pages["EXCEL"] = 1 /\ doc_pages["PDF"] = 2
    /\ \A v \in Variants : outcome[v].error = "PageMismatch" /\ work[v] = {}

\* C10: for a pair with the same page count n >= 1, when no collaborator
\* refuses any step (render, rasterize, extract, draw, storage), each
\* variant uploads both annotated images of every page and ends Completed
\* with n page pairs.
C10_AllStepsOkCompletes ==
    \A v \in Variants :
        (Done(v) /\ Validated(v) /\ num_pages[v]["EXCEL"] >= 1
           /\ \A k \in EnvKeys : env[k] # "fail")
        => /\ outcome[v].status = "Completed"
           /\ Len(outcome[v].result) = num_pages[v]["EXCEL"]
           /\ stored[v] = {PagePair(v, p)[s] : p \in PageRange(num_pages[v]["EXCEL"]), s \in Sides}


----------------------------------------------------------------------------
\* The call of variant v is past its existence checks and collision guard.
PastGuard(v) == pc[v] # "idle" /\ outcome[v].error # "NotFound"

\* C11: in both variants, once a call is past its guard, a spreadsheet that
\* shared the stem of the PDF goes under {stem}_RENAMED{ext} and its old name
\* is gone from the workspace before anything else is done (a spreadsheet
\* with another stem keeps its name); the rendered spreadsheet document is
\* never the original PDF, and no page image or annotated image of one side
\* has the name of one of the other side.
C11_CollisionGuard ==
    \A v \in Variants :
        PastGuard(v) =>
            /\ IF excel_file_name.stem = pdf_file_name.stem
               THEN /\ excel_path[v] = [stem |-> excel_file_name.stem \o <<"_RENAMED">>,
                                        ext |-> excel_file_name.ext]
                    /\ excel_file_name \notin workspace[v]
                    /\ excel_path[v] \in workspace[v]
               ELSE excel_path[v] = excel_file_name
            /\ [stem |-> excel_path[v].stem, ext |-> ".pdf"] # pdf_file_name
            /\ \A p, q \in 0 .. MaxPages :
                  /\ SideImage(v, "EXCEL", p) # SideImage(v, "PDF", q)
                  /\ AnnotatedImage(SideImage(v, "EXCEL", p))
                        # AnnotatedImage(SideImage(v, "PDF", q))

\* A pair with one stem was renamed, rendered and rasterized on both sides.
C11_Witness ==
    /\ excel_file_name.stem = pdf_file_name.stem
    /\ [stem |-> excel_file_name.stem \o <<"_RENAMED">>, ext |-> ".pdf"] \in workspace["opt"]
    /\ Counted("opt")
    /\ Counted("seq")

----------------------------------------------------------------------------
\* One page's data flow

Other(side) == IF side = "EXCEL" THEN "PDF" ELSE "EXCEL"

\* The text without its whitespace characters, letters in upper case.
Canon(t) ==
    LET kept == SelectSeq(t, LAMBDA c : c # " ")
    IN [i \in 1 .. Len(kept) |-> Upper(kept[i])]

\* Positions (from 1) of the tokens of a that have no normalized match in b.
UnmatchedIn(a, b) ==
    {i \in 1 .. Len(a) : \A j \in 1 .. Len(b) : Canon(a[i]) # Canon(b[j])}

Unmatched(side) == UnmatchedIn(texts[side], texts[Other(side)])

\* The elements of a set of numbers, in increasing order.
Ascending(S) ==
    CHOOSE f \in [1 .. Cardinality(S) -> S] :
        \A i, j \in 1 .. Cardinality(S) : i < j => f[i] < f[j]

\* The corners of the rectangle of the token at position i of a side.
TokenCorners(side, i) ==
    LET b == bboxes[side][i] IN <<b[1], b[2], b[1] + b[3], b[2] + b[4]>>

\* The differences of the page have been computed.
Diffed == page_pc.phase \in {"draw", "end"}

\* find_text_differences has just returned.
JustDiffed == page_pc = [phase |-> "draw", done |-> {}]

\* Both annotated images of the page have been drawn.
Drawn == page_pc.phase = "end"

\* The rearrangements of a list.
Reorderings(s) ==
    {[i \in 1 .. Len(s) |-> s[f[i]]] :
        f \in {g \in [1 .. Len(s) -> 1 .. Len(s)] :
                  \A i, j \in 1 .. Len(s) : i # j => g[i] # g[j]}}

\* C12: once both images of a page are drawn, each side has one rectangle
\* per token of that side without a normalized match on the other side,
\* drawn at the box of that token, in token order; identical token lists
\* give empty diffs and no rectangle; a PDF list that is the spreadsheet list
\* plus one unmatched token gives exactly that one PDF index, one rectangle
\* on the PDF image at that token's box and none on the spreadsheet image.
C12_RectanglePerUnmatchedToken ==
    Drawn =>
        /\ \A side \in Sides :
              /\ Len(rectangles[side]) = Cardinality(Unmatched(side))
              /\ \A k \in 1 .. Len(rectangles[side]) :
                    rectangles[side][k] = TokenCorners(side, Ascending(Unmatched(side))[k])
        /\ texts["EXCEL"] = texts["PDF"] =>
              \A side \in Sides : diff_indices[side] = <<>> /\ rectangles[side] = <<>>
        /\ \A n \in 1 .. Len(texts["PDF"]) :
              (/\ texts["EXCEL"] = SubSeq(texts["PDF"], 1, n - 1)
               /\ n = Len(texts["PDF"])
               /\ n \in Unmatched("PDF"))
              => /\ diff_indices["PDF"] = <<n - 1>>
                 /\ rectangles["PDF"] = <<TokenCorners("PDF", n)>>
                 /\ rectangles["EXCEL"] = <<>>

\* The PDF has the spreadsheet's token and one more that matches nothing:
\* one rectangle was drawn, on the PDF image.
C12_Witness ==
    /\ Drawn
    /\ Len(texts["EXCEL"]) = 1
    /\ Len(texts["PDF"]) = 2
    /\ texts["PDF"][1] = texts["EXCEL"][1]
    /\ Unmatched("PDF") = {2}
    /\ Len(rectangles["PDF"]) = 1
    /\ rectangles["EXCEL"] = <<>>

\* C13: the indices returned for a side are, in increasing order and each
\* once, exactly the positions of its tokens whose text, with all whitespace
\* removed and in upper case, equals that of no token of the other side; the
\* same indices come out for every reordering of the other side.
C13_DiffIsSetMembership ==
    Diffed =>
        \A side \in Sides :
            /\ \A k, l \in 1 .. Len(diff_indices[side]) :
                  k < l => diff_indices[side][k] < diff_indices[side][l]
            /\ {diff_indices[side][k] + 1 : k \in 1 .. Len(diff_indices[side])}
                  = Unmatched(side)
            /\ JustDiffed =>
                  \A q \in Reorderings(texts[Other(side)]) :
                      DiffIndices(texts[side], q) = diff_indices[side]

\* Tokens that differ only in case and spacing are matched, across
\* positions, next to one that is flagged.
C13_Witness ==
    /\ Diffed
    /\ JustDiffed
    /\ texts["EXCEL"] = <<(<<"a">>), (<<"a", " ", "b">>)>>
    /\ texts["PDF"] = <<(<<"A", "B">>), (<<"a", " ", "b">>)>>
    /\ diff_indices["EXCEL"] = <<0>>
    /\ diff_indices["PDF"] = <<>>

\* C14: when both sides of the page carry the same token list (empty,
\* with repeats or not), both returned index lists are empty.
C14_DiffOfSelfIsEmpty ==
    (Diffed /\ texts["EXCEL"] = texts["PDF"]) =>
        diff_indices = [s \in Sides |-> <<>>]

\* A list with a repeated token was compared with itself.
C14_Witness ==
    /\ Diffed
    /\ Len(texts["EXCEL"]) = 2
    /\ texts["EXCEL"][1] = texts["EXCEL"][2]
    /\ texts["PDF"] = texts["EXCEL"]
    /\ diff_indices["EXCEL"] = <<>>
    /\ diff_indices["PDF"] = <<>>

----------------------------------------------------------------------------
\* The classifier

\* The uppercased name of the entry contains the word.
Has(e, word) == Contains(ToUpper(FileName(e)), word)

\* The entry has a spreadsheet extension, in any case.
Sheet(e) == ToUpper(e.ext) \in {<<".", "X", "L", "S", "X">>, <<".", "X", "L", "S">>}

\* The role of the highest-priority rule that the entry satisfies, "" if it
\* satisfies none or is not a regular file.
HighestRule(e) ==
    IF ~e.is_file THEN ""
    ELSE IF Has(e, <<"S", "E", "T", "T", "L", "E">>) /\ Sheet(e) THEN "settle_file_name"
    ELSE IF (Has(e, <<"V", "A", "T">>) \/ Has(e, <<"E", "-", "I", "N", "V">>))
            /\ ToUpper(e.ext) = <<".", "X", "M", "L">> THEN "einvoice_file_name"
    ELSE IF Has(e, <<"C", "I", "&", "P", "K", "L">>) /\ Sheet(e) THEN "cinvoice_plist_file_name"
    ELSE IF Has(e, <<"C", "I">>) /\ Sheet(e) THEN "cinvoice_file_name"
    ELSE IF Has(e, <<"P", "K", "L">>) /\ Sheet(e) THEN "packing_list_file_name"
    ELSE IF Has(e, <<"T", "K", "X">>) /\ Sheet(e) THEN "export_CD_file_name"
    ELSE IF (Has(e, <<"P", "O">>) \/ Has(e, <<"S", "O">>) \/ Has(e, <<"P", "C">>) \/ Has(e, <<"S", "C">>))
            /\ Sheet(e) THEN "PO_SO_file_name"
    ELSE ""

\* The names of the entries whose highest-priority rule is that of role r.
NamesOfRule(E, r) == {FileName(e) : e \in {x \in E : HighestRule(x) = r}}

\* The names in a list.
Listed(list) == {list[i] : i \in 1 .. Len(list)}

\* The roles under which a name is recorded in the dict and list being built.
RolesOf(res, exports, name) ==
    {r \in SingleRoles : res[r] = name}
      \cup (IF name \in Listed(exports) THEN {"export_CD_file_name"} ELSE {})

\* The entries the loop has been through.
Scanned == IF cls_pc = "scan" THEN entries \ to_scan ELSE {}

\* The dicts returned so far.
ReturnedDicts == {returned[i] : i \in 1 .. Len(returned)}

\* Spreadsheet files with "CI&PKL" and without "SETTLE" in the uppercased name.
CombinedFiles(E) ==
    {e \in E : e.is_file /\ Sheet(e) /\ Has(e, <<"C", "I", "&", "P", "K", "L">>) /\ ~Has(e, <<"S", "E", "T", "T", "L", "E">>)}

\* C15: a spreadsheet file whose uppercased name contains "CI&PKL" and not
\* "SETTLE" is put under the combined role when the scan comes to it (the
\* key then holds such a file, this one if it is the only one), and is never
\* under the commercial-invoice or the packing-list role, during the scan
\* and in every returned dict, whatever else is in the directory and
\* whatever the scan order.
C15_CombinedNeverAlone ==
    \A e \in CombinedFiles(entries) :
        LET combined == {FileName(x) : x \in CombinedFiles(entries)}
        IN /\ result["cinvoice_file_name"] # FileName(e)
           /\ result["packing_list_file_name"] # FileName(e)
           /\ e \in Scanned =>
                 /\ result["cinvoice_plist_file_name"] \in combined
                 /\ combined = {FileName(e)} =>
                       result["cinvoice_plist_file_name"] = FileName(e)
           /\ \A d \in ReturnedDicts :
                 /\ d.names["cinvoice_file_name"] # FileName(e)
                 /\ d.names["packing_list_file_name"] # FileName(e)
                 /\ FileName(e) \notin Listed(d.exports)
                 /\ "cinvoice_plist_file_name" \in d.keys
                 /\ d.names["cinvoice_plist_file_name"] \in combined
                 /\ combined = {FileName(e)} =>
                       d.names["cinvoice_plist_file_name"] = FileName(e)

\* "ci&pkl.xlsx" was classified next to a commercial invoice and a packing
\* list.
C15_Witness ==
    /\ Len(returned) >= 1
    /\ returned[1].names["cinvoice_plist_file_name"] = <<"c", "i", "&", "p", "k", "l", ".", "x", "l", "s", "x">>
    /\ returned[1].names["cinvoice_file_name"] = <<"c", "i", ".", "x", "l", "s", "x">>
    /\ returned[1].names["packing_list_file_name"] = <<"p", "k", "l", ".", "x", "l", "s", "x">>

\* C16 (as claimed): two calls on an unchanged directory return the same
\* dict, whatever order the scan yields the files in.
C16_SameResultTwice ==
    Len(returned) = Calls => returned[1] = returned[2]

\* C17: during the scan and in every returned dict, a name is under at most
\* one role, and only under the role of the highest-priority rule its file
\* satisfies; files that satisfy no rule, and entries that are not regular
\* files, are under none; a scanned file that satisfies a rule has left that
\* role filled.
C17_FirstMatchWins ==
    /\ \A e \in entries :
          /\ RolesOf(result, export_cd_files, FileName(e)) \subseteq {HighestRule(e)} \ {""}
          /\ \A d \in ReturnedDicts :
                RolesOf(d.names, d.exports, FileName(e)) \subseteq {HighestRule(e)} \ {""}
    /\ \A e \in Scanned :
          /\ HighestRule(e) \in SingleRoles => result[HighestRule(e)] # NoName
          /\ HighestRule(e) = "export_CD_file_name" => FileName(e) \in Listed(export_cd_files)

\* A name with "VAT" and "PO" but a spreadsheet extension went to PO/SO, a
\* name with "SETTLE" and "CI&PKL" to settle, and "ci.pdf" was omitted.
C17_Witness ==
    /\ Len(returned) >= 1
    /\ Cardinality(entries) = 3
    /\ \E e \in entries : FileName(e) = <<"c", "i", ".", "p", "d", "f">>
    /\ returned[1].keys = {"PO_SO_file_name", "settle_file_name"}
    /\ returned[1].names["PO_SO_file_name"] = <<"v", "a", "t", "_", "p", "o", ".", "x", "l", "s", "x">>
    /\ returned[1].names["settle_file_name"] = <<"s", "e", "t", "t", "l", "e", "_", "c", "i", "&", "p", "k", "l", ".", "x", "l", "s", "x">>

\* C18: in every returned dict the export-declaration key is present exactly
\* when some file has the TKX rule as its highest-priority rule, and its list
\* holds each of those files once and nothing else; every other key that is
\* present holds one name, of a file of the directory whose highest-priority
\* rule is that key's rule.
C18_ExportListAndSingleRoles ==
    \A d \in ReturnedDicts :
        LET tkx == NamesOfRule(entries, "export_CD_file_name")
        IN /\ ("export_CD_file_name" \in d.keys) = (tkx # {})
           /\ Listed(d.exports) = tkx
           /\ Len(d.exports) = Cardinality(tkx)
           /\ \A r \in d.keys \cap SingleRoles : d.names[r] \in NamesOfRule(entries, r)

\* Two export declarations and a commercial invoice were classified.
C18_Witness ==
    /\ Len(returned) >= 1
    /\ Len(returned[1].exports) = 2
    /\ returned[1].keys = {"export_CD_file_name", "cinvoice_file_name"}

----------------------------------------------------------------------------
\* Ordering inside the optimized orchestrator

\* Some step of some page of the optimized run has started.
PageWorkStarted == work["opt"] # {}

\* Both rasterization threads of the optimized run have returned.
BothRasterized == \A side \in Sides : rast[side] = "ok"

\* C19: the two rasterization threads of the optimized variant exist
\* together (created by one gather); the page counts are compared, and any
\* extraction of any page is started, only after both threads have returned,
\* and an extraction only after the counts were found equal.
C19_RasterizeBeforePages ==
    /\ (rast["EXCEL"] = "idle") = (rast["PDF"] = "idle")
    /\ outcome["opt"].error = "PageMismatch" => BothRasterized
    /\ pc["opt"] = "gather" => BothRasterized /\ Validated("opt")
    /\ PageWorkStarted =>
          /\ BothRasterized
          /\ num_pages["opt"]["EXCEL"] = doc_pages["EXCEL"]
          /\ num_pages["opt"]["PDF"] = doc_pages["PDF"]
          /\ num_pages["opt"]["EXCEL"] = num_pages["opt"]["PDF"]

\* The extractions of two pages have started after both rasterizations
\* returned two pages each.
C19_Witness ==
    /\ StageKeys("ocr", 0) \cup StageKeys("ocr", 1) \subseteq work["opt"]
    /\ BothRasterized
    /\ num_pages["opt"] = [side \in Sides |-> 2]

\* C20: in a page pipeline of the optimized variant a draw has started only
\* if both extractions of that page have returned, an upload only if both
\* draws of that page have returned, and a page one of whose extractions
\* raised has no draw and no upload started.
C20_StagesInOrder ==
    \A p \in Pages :
        /\ StageKeys("draw", p) \cap work["opt"] # {} =>
              StageKeys("ocr", p) \subseteq succeeded["opt"]
        /\ StageKeys("store", p) \cap work["opt"] # {} =>
              StageKeys("draw", p) \subseteq succeeded["opt"]
        /\ StageKeys("ocr", p) \cap failed["opt"] # {} =>
              (StageKeys("draw", p) \cup StageKeys("store", p)) \cap work["opt"] = {}

\* One page went through extraction and drawing to its uploads while an
\* extraction of the other page raised.
C20_Witness ==
    /\ StageKeys("store", 0) \subseteq work["opt"]
    /\ StageKeys("draw", 0) \subseteq succeeded["opt"]
    /\ StageKeys("ocr", 1) \cap failed["opt"] # {}
    /\ pstat[1] = "failed"

----------------------------------------------------------------------------
\* Multiplicity

\* The token at position i of a side has a normalized match on the other side.
HasMatch(side, i) ==
    \E j \in 1 .. Len(texts[Other(side)]) :
        Canon(texts[side][i]) = Canon(texts[Other(side)][j])

\* C30: a token whose normalized text occurs at least once on the other side
\* is not flagged, however often it occurs on its own side; when every token
\* of each side has such a match, the two sides having different numbers of
\* tokens included, both index lists are empty.
C30_MultiplicityIgnored ==
    Diffed =>
        /\ \A side \in Sides : \A i \in 1 .. Len(texts[side]) :
              HasMatch(side, i) => (i - 1) \notin Listed(diff_indices[side])
        /\ (\A side \in Sides : \A i \in 1 .. Len(texts[side]) : HasMatch(side, i))
              => \A side \in Sides : diff_indices[side] = <<>>

\* A token twice on the spreadsheet side and once on the PDF side.
C30_Witness ==
    /\ Diffed
    /\ Len(texts["EXCEL"]) = 2
    /\ Len(texts["PDF"]) = 1
    /\ Canon(texts["EXCEL"][1]) = Canon(texts["EXCEL"][2])
    /\ Canon(texts["EXCEL"][1]) = Canon(texts["PDF"][1])
    /\ diff_indices = [s \in Sides |-> <<>>]

----------------------------------------------------------------------------
\* Rendering

\* The renderer refused the spreadsheet (non-zero exit or timeout).
RenderRefused == env[<<"render", 0, "EXCEL">>] = "fail"

\* The call of variant v has made its renderer invocation.
Rendered(v) == PastGuard(v) /\ pc[v] # "render"

\* Nothing was done for variant v after rendering: no page count, no page
\* step, no file beyond the inputs and the renamed spreadsheet, no upload.
NothingAfterRender(v) ==
    /\ num_pages[v] = [s \in Sides |-> -1]
    /\ work[v] = {}
    /\ stored[v] = {}
    /\ result_images[v] = <<>>
    /\ workspace[v] \subseteq {excel_file_name, pdf_file_name, excel_path[v]}
    /\ v = "opt" => rast = [s \in Sides |-> "idle"]

\* A call that has made its renderer invocation and met a refusal has
\* failed with the render failure and done nothing else.
RenderFailureStops ==
    \A v \in Variants :
        (Rendered(v) /\ RenderRefused) =>
            /\ pc[v] = "done"
            /\ outcome[v] = [status |-> "Failed", error |-> "Render",
                             counts |-> <<>>, result |-> <<>>]
            /\ NothingAfterRender(v)

\* A call that is past its renderer invocation does not come back to it.
RenderedOnce ==
    \A v \in Variants : Rendered(v) => pc'[v] # "render"

\* C21: in both variants the renderer is invoked at most once per
\* comparison and not again after it has failed or returned; when it fails
\* the comparison has failed with that failure right away and no
\* rasterization, extraction, annotation or upload has taken place.
C21_RenderOnceAndFatal == [](RenderFailureStops) /\ [][RenderedOnce]_vars

\* Both variants have failed on the renderer's refusal.
C21_Witness ==
    /\ RenderRefused
    /\ \A v \in Variants : outcome[v].error = "Render"

----------------------------------------------------------------------------
\* Ownership of the output files in the optimized run

\* The tasks of the optimized run that have been started.
StartedTasks ==
    {<<"raster", 0, side>> : side \in {x \in Sides : rast[x] # "idle"}} \cup work["opt"]

\* The workspace paths a task writes.
TaskFiles(t) ==
    IF t[1] = "raster" THEN RasterFiles(SideDoc("opt", t[3]), doc_pages[t[3]])
    ELSE StepFiles("opt", t)

\* The storage object names a task writes.
TaskObjects(t) == StepObjects("opt", t)

\* What is in the workspace before the first concurrent task is created.
BeforeTasks == {excel_file_name, pdf_file_name, excel_path["opt"], RenderedPdf(excel_path["opt"])}

\* A task that is being started shares no workspace path and no object name
\* with any other started task, and writes no path that was there before
\* the tasks.
NewTaskOwnsItsOutputs ==
    \A t \in StartedTasks' \ StartedTasks :
        (/\ \A u \in StartedTasks \ {t} :
               /\ TaskFiles(t) \cap TaskFiles(u) = {}
               /\ TaskObjects(t) \cap TaskObjects(u) = {}
         /\ TaskFiles(t) \cap BeforeTasks = {})'

\* A file or object that appears in the optimized run once the tasks exist
\* is an output of exactly one started task.
NewOutputHasOneWriter ==
    /\ \A f \in (workspace'["opt"] \ workspace["opt"]) \ BeforeTasks' :
          (Cardinality({t \in StartedTasks : f \in TaskFiles(t)}) = 1)'
    /\ \A o \in stored'["opt"] \ stored["opt"] :
          (Cardinality({t \in StartedTasks : o \in TaskObjects(t)}) = 1)'

\* C22: in the optimized run no two started tasks (rasterizations,
\* annotation draws, uploads) ever have a workspace path or a storage object
\* name in common, no task writes a path that was there before the tasks,
\* and every file and object produced is written by exactly one task.
C22_OneWriterPerOutput == [][NewTaskOwnsItsOutputs /\ NewOutputHasOneWriter]_vars

\* Both rasterizations and the four draws of a two-page pair have written
\* their files.
C22_Witness ==
    /\ StageKeys("draw", 0) \cup StageKeys("draw", 1) \subseteq succeeded["opt"]
    /\ Cardinality(workspace["opt"] \ BeforeTasks) = 8

----------------------------------------------------------------------------
\* Missing inputs

\* One of the two files the caller names is not in the task directory of v.
InputMissing(v) == excel_file_name \notin workspace[v] \/ pdf_file_name \notin workspace[v]

\* A call of variant v begins in this step.
Invoked(v) == pc[v] = "idle" /\ pc'[v] # "idle"

\* A call that begins with an input missing ends in the same step with the
\* Not-Found Failure and changes neither the task directory nor the bucket.
MissingInputStep ==
    \A v \in Variants :
        (Invoked(v) /\ InputMissing(v)) =>
            /\ pc'[v] = "done"
            /\ outcome'[v] = [status |-> "Failed", error |-> "NotFound",
                              counts |-> <<>>, result |-> <<>>]
            /\ workspace' = workspace
            /\ stored' = stored
            /\ excel_path'[v] = excel_file_name
            /\ work' = work
            /\ env' = env

\* A call that ended with the Not-Found Failure has renamed nothing and
\* created nothing.
NotFoundLeavesNothing ==
    \A v \in Variants :
        outcome[v].error = "NotFound" =>
            /\ pc[v] = "done"
            /\ InputMissing(v)
            /\ workspace[v] \subseteq {excel_file_name, pdf_file_name}
            /\ excel_path[v] = excel_file_name
            /\ NothingAfterRender(v)

\* C29: when a variant is invoked with either input file missing, it fails
\* with the Not-Found Failure before the collision guard and leaves the
\* workspace as it was: nothing renamed, rendered, rasterized, annotated or
\* uploaded.
C29_MissingInputNoEffect == [](NotFoundLeavesNothing) /\ [][MissingInputStep]_vars

\* The PDF is missing, the spreadsheet of the same stem is still under its
\* name after both variants failed.
C29_Witness ==
    /\ excel_file_name.stem = pdf_file_name.stem
    /\ \A v \in Variants :
          /\ outcome[v].error = "NotFound"
          /\ workspace[v] = {excel_file_name}

----------------------------------------------------------------------------
\* Results and uploads

\* The page pairs variant v has put in its result or handed to the caller.
PairsOf(v) == Listed(result_images[v]) \cup Listed(outcome[v].result)

\* Both uploads of page p of variant v were made and returned.
Uploaded(v, p) == StageKeys("store", p) \subseteq succeeded[v]

\* C28: in both variants every page pair in the result being built, and in
\* a returned sequence, is the pair of a page both of whose uploads were
\* made and returned, and both its names are objects in the bucket; a page
\* with an upload that raised or was not made is not in the result.
C28_ResultOnlyAfterUploads ==
    \A v \in Variants :
        /\ \A pair \in PairsOf(v) :
              /\ \E p \in Pages : pair = PagePair(v, p) /\ Uploaded(v, p)
              /\ {pair["EXCEL"], pair["PDF"]} \subseteq stored[v]
        /\ \A p \in Pages : ~Uploaded(v, p) => PagePair(v, p) \notin PairsOf(v)

\* Both variants drew both images of page 0 and tried to upload them; the
\* uploads raised and the page is in neither result.
C28_Witness ==
    \A v \in Variants :
        /\ Done(v)
        /\ StageKeys("draw", 0) \subseteq succeeded[v]
        /\ StageKeys("store", 0) \cap failed[v] # {}
        /\ PagePair(v, 0) \notin PairsOf(v)

----------------------------------------------------------------------------
\* The rename persists

\* The name the collision guard gives the spreadsheet.
GuardName == [stem |-> excel_file_name.stem \o <<"_RENAMED">>, ext |-> excel_file_name.ext]

\* The guard of some call of variant v has renamed the spreadsheet.
GuardHasRenamed(v) == GuardName \in workspace[v]

\* Once the guard has renamed the spreadsheet, the name the caller passed is
\* gone from the task directory, while a run goes on, after it has returned
\* or failed, and when the caller calls again.
RenameStays ==
    \A v \in Variants :
        GuardHasRenamed(v) => excel_file_name \notin workspace[v]

\* No step takes the renamed spreadsheet away again.
RenameNotRolledBack ==
    \A v \in Variants :
        GuardHasRenamed(v) => GuardName \in workspace'[v]

\* A call that begins after the guard of an earlier call has renamed the
\* spreadsheet ends in the same step with the Not-Found Failure and leaves
\* the task directory and the bucket as they are.
SecondCallNotFound ==
    \A v \in Variants :
        (Invoked(v) /\ GuardHasRenamed(v)) =>
            /\ pc'[v] = "done"
            /\ outcome'[v].error = "NotFound"
            /\ workspace' = workspace
            /\ stored' = stored
            /\ work'[v] = {}

\* A pair with equal stems whose first run passed the existence checks: a
\* later call has ended with the Not-Found Failure.
LaterCallsFail ==
    \A v \in Variants :
        (/\ excel_file_name.stem = pdf_file_name.stem
         /\ invocations[v] >= 2
         /\ pc[v] # "idle")
        => outcome[v] = [status |-> "Failed", error |-> "NotFound",
                         counts |-> <<>>, result |-> <<>>]

\* C27: the rename made by the collision guard stays, whether the run then
\* returns or fails; after a run on a pair with equal stems the spreadsheet
\* is not under the name the caller passed, and a second call with the same
\* arguments fails the existence check with the Not-Found Failure before
\* anything is done.
C27_RenamePersists ==
    /\ [](RenameStays /\ LaterCallsFail)
    /\ [][RenameNotRolledBack /\ SecondCallNotFound]_vars

\* Both variants were called twice on a pair with equal stems: the first
\* runs renamed and rendered the spreadsheet, the second calls failed.
C27_Witness ==
    \A v \in Variants :
        /\ invocations[v] = 2
        /\ outcome[v].error = "NotFound"
        /\ GuardHasRenamed(v)
        /\ [stem |-> GuardName.stem, ext |-> ".pdf"] \in workspace[v]
-----------------------------------------------------------------------------
\* C24

\* What the wrapper saw from the i-th invocation of the function.
Seen(i) == Surfaced(wrapped, remote[i])

WrapperDone == rw_pc = "done"

\* The invocations before the last one all failed with a retry_on exception.
EarlierFailedRetryably ==
    \A i \in 1 .. Len(remote) - 1 : Seen(i) \in retry_on

\* The wrapper ended with the outcome of its last invocation: its result, or
\* its exception, a retry_on exception only from invocation max_retries + 1.
EndedWithLast ==
    LET n == Len(remote)
    IN  /\ n >= 1
        /\ rw_result.of = n
        /\ EarlierFailedRetryably
        /\ IF Seen(n) = "ok"
           THEN rw_result.kind = "return"
           ELSE /\ rw_result.kind = "raise"
                /\ rw_result.exc = Seen(n)
                /\ Seen(n) \in retry_on => n = max_retries + 1

\* While the wrapper runs, every invocation so far failed with retry_on.
RunsOnlyAfterRetryable ==
    \A i \in 1 .. Len(remote) : Seen(i) \in retry_on

WrapperBounded ==
    /\ Len(remote) <= max_retries + 1
    /\ IF WrapperDone THEN EndedWithLast ELSE RunsOnlyAfterRetryable

\* C24: a function under retry_with_backoff(max_retries=k) is invoked at most
\* k + 1 times per call of the wrapper and the wrapper terminates: with the
\* result of the first successful invocation and no invocation after it, with
\* the exception of invocation k + 1 once all have failed with a retry_on
\* exception, or with an exception outside retry_on as soon as it is raised.
C24_RetryBoundedAndTerminates == [](WrapperBounded) /\ <>WrapperDone

\* All k + 1 invocations failed with retry_on and the last exception is raised.
C24_Witness ==
    /\ wrapped = "func"
    /\ WrapperDone
    /\ max_retries >= 2
    /\ Len(remote) = max_retries + 1
    /\ rw_result.kind = "raise"
    /\ rw_result.exc \in retry_on
-----------------------------------------------------------------------------
\* C25

\* C25: with jitter enabled, no delay slept before a retry exceeds max_delay,
\* whatever the attempt number and the jitter draw (delays are in tenths of a
\* second, max_delay in seconds).
C25_DelayWithinMaxDelay ==
    \A i \in 1 .. Len(slept) : slept[i] <= max_delay * 10
-----------------------------------------------------------------------------
\* C23

\* The call of extract_text_from_image ended on a model call that failed with
\* a rate-limit or API error.
EndedOnRemoteError ==
    /\ wrapped = "extract_text_from_image"
    /\ WrapperDone
    /\ remote[Len(remote)] \in RemoteErrors

\* C23: extract_text_from_image retries remote failures: a model call that
\* fails with a rate-limit or API error is attempted again after a backoff
\* sleep, and the failure reaches the caller, as ServiceUnavailableException,
\* only from the attempt that follows MAX_RETRIES retries.
C23_RemoteFailuresRetried ==
    EndedOnRemoteError =>
        /\ Len(remote) = MAX_RETRIES + 1
        /\ Len(slept) = MAX_RETRIES
        /\ rw_result = [kind |-> "raise", exc |-> "ServiceUnavailableException",
                        of |-> MAX_RETRIES + 1]
-----------------------------------------------------------------------------
\* C26

\* The calls so far whose awaited execution raised expected_exception.
AwaitedFailures ==
    {i \in DOMAIN cb_log : cb_log[i].did = "raised_when_awaited"}

\* The last of them.
LastAwaitedFailure ==
    CHOOSE i \in AwaitedFailures : \A j \in AwaitedFailures : j <= i

\* failure_threshold calls have failed when awaited and recovery_timeout has
\* not elapsed since the last of these failures.
ThresholdReached ==
    /\ cb_pc = "idle"
    /\ Cardinality(AwaitedFailures) >= failure_threshold
    /\ now - cb_log[LastAwaitedFailure].at <= recovery_timeout

\* C26: a breaker protecting an async function is OPEN after
\* failure_threshold calls whose awaited execution raised expected_exception,
\* and until recovery_timeout has elapsed since the last failure every further
\* call is rejected without invoking the function; a call that then succeeds
\* in HALF_OPEN leaves the breaker CLOSED with failure_count 0.
C26_OpensAfterAwaitedFailures ==
    /\ ThresholdReached =>
          /\ cb_state = "open"
          /\ \A i \in DOMAIN cb_log :
                i > LastAwaitedFailure => cb_log[i].did = "rejected"
    /\ /\ cb_pc = "idle"
       /\ cb_log # <<>>
       /\ cb_log[Len(cb_log)].did = "returned"
       /\ cb_log[Len(cb_log)].in = "half_open"
       => cb_state = "closed" /\ failure_count = 0
====
